---- MODULE Spec2Model ----
(***************************************************************************)
(* pySMARTS (src/pySMARTS/smarts.py): the material resolver                 *)
(* _material_to_code and the engine driver _smartsAll, which removes the   *)
(* transient files, writes the card file smarts295.inp.txt, runs the       *)
(* SMARTS executable, reads smarts295.ext.txt and cleans up.               *)
(*                                                                         *)
(* Python values.  The arguments of _smartsAll are modelled as str and are *)
(* TLA+ strings.  Where None, a str and other objects meet (the argument   *)
(* and the result of _material_to_code, the value _smartsAll returns) a    *)
(* value is a tagged record: PyNone, PyStr(s), PyKeys(S), PyTable(t).      *)
(***************************************************************************)
EXTENDS Integers, Sequences, FiniteSets, TLC

PyNone == [t |-> "None"]
PyStr(s) == [t |-> "str", v |-> s]
PyKeys(S) == [t |-> "dict_keys", v |-> S]
PyTable(rows) == [t |-> "DataFrame", v |-> rows]

\* Python truthiness of a value: None and '' are falsy.
Truthy(x) == ~(x = PyNone \/ x = PyStr(""))

(***************************************************************************)
(* str helpers, computed character by character as Python computes them.   *)
(***************************************************************************)
Digits == <<"0", "1", "2", "3", "4", "5", "6", "7", "8", "9">>

CharAt(s, k) == SubSeq(s, k, k)

\* s.replace(old, new) for a one-character old: the characters of s from
\* left to right, each old one replaced.
str_replace(s, old, new) ==
    LET done[k \in 0..Len(s)] ==
            IF k = 0 THEN ""
            ELSE done[k - 1] \o (IF CharAt(s, k) = old THEN new ELSE CharAt(s, k))
    IN  done[Len(s)]

\* One more than the number of blanks.
str_split_len_blanks(s) ==
    1 + Cardinality({k \in 1..Len(s) : CharAt(s, k) = " "})

\* len(s.split()): the number of maximal runs of non-blank characters.
str_split_len(s) ==
    Cardinality({k \in 1..Len(s) :
        /\ CharAt(s, k) # " "
        /\ (k = 1 \/ CharAt(s, k - 1) = " ")})

RECURSIVE Join(_, _)
\* sep.join(fields).
Join(fields, sep) ==
    IF Len(fields) = 0 THEN ""
    ELSE IF Len(fields) = 1 THEN fields[1]
    ELSE fields[1] \o sep \o Join(Tail(fields), sep)

RECURSIVE str_of_int(_)
\* '{}'.format(n) for an int n >= 0: its decimal digits.
str_of_int(n) ==
    IF n < 10 THEN Digits[n + 1]
    ELSE str_of_int(n \div 10) \o Digits[(n % 10) + 1]

DigitValue(c) == CHOOSE d \in 0..9 : Digits[d + 1] = c

IsDigit(c) == \E d \in 1..10 : Digits[d] = c

\* The float literals of the model: an unsigned run of decimal digits.
IsFloatLiteral(s) == Len(s) > 0 /\ \A k \in 1..Len(s) : IsDigit(CharAt(s, k))

\* float(s) for a literal of the model; the caller raises ValueError for
\* any other string, as float() does for '' and for text.
float(s) ==
    LET value[k \in 0..Len(s)] ==
            IF k = 0 THEN 0 ELSE 10 * value[k - 1] + DigitValue(CharAt(s, k))
    IN  value[Len(s)]

\* s.split(): the maximal runs of non-blank characters, from left to right.
Tokens(s) ==
    LET starts == {k \in 1..Len(s) :
                     CharAt(s, k) # " " /\ (k = 1 \/ CharAt(s, k - 1) = " ")}
        ends == {k \in 1..Len(s) :
                   CharAt(s, k) # " " /\ (k = Len(s) \/ CharAt(s, k + 1) = " ")}
        nth(S, n) == CHOOSE k \in S : Cardinality({m \in S : m < k}) = n - 1
    IN  [n \in 1..Cardinality(starts) |-> SubSeq(s, nth(starts, n), nth(ends, n))]

\* In CHOOSE v \in {F(x) : x \in {e}} : TRUE, which is F(e), the argument e is
\* evaluated once.
\* The place of the first character of s that is in cs, 0 if there is none.
Find(s, cs) ==
    LET first(t) ==
            IF \E k \in 1..Len(t) : CharAt(t, k) \in cs
            THEN CHOOSE k \in 1..Len(t) :
                    /\ CharAt(t, k) \in cs
                    /\ \A m \in 1..(k - 1) : CharAt(t, m) \notin cs
            ELSE 0
    IN  CHOOSE v \in {first(x) : x \in {s}} : TRUE

Signed(s) == Len(s) > 0 /\ CharAt(s, 1) \in {"+", "-"}
Unsigned(s) == IF Signed(s) THEN SubSeq(s, 2, Len(s)) ELSE s

\* The parts of a decimal literal: sign, digits, '.', digits, 'E', sign,
\* digits.
NumberParts(s) ==
    LET split(t) ==
            LET e == Find(t, {"E", "e"})
                body == IF e = 0 THEN t ELSE SubSeq(t, 1, e - 1)
                ex == IF e = 0 THEN "0" ELSE SubSeq(t, e + 1, Len(t))
                dot == Find(Unsigned(body), {"."})
            IN  [minus |-> Signed(body) /\ CharAt(body, 1) = "-",
                 int |-> IF dot = 0 THEN Unsigned(body)
                         ELSE SubSeq(Unsigned(body), 1, dot - 1),
                 frac |-> IF dot = 0 THEN ""
                          ELSE SubSeq(Unsigned(body), dot + 1, Len(Unsigned(body))),
                 neg |-> Signed(ex) /\ CharAt(ex, 1) = "-",
                 exp |-> Unsigned(ex)]
    IN  CHOOSE v \in {split(x) : x \in {s}} : TRUE

IsNumber(s) ==
    LET digits(n) == /\ IsFloatLiteral(n.int \o n.frac)
                     /\ IsFloatLiteral(n.exp)
    IN  CHOOSE v \in {digits(x) : x \in {NumberParts(s)}} : TRUE

\* The number mant * 10^exp with a mantissa that does not end in 0.
Normal(mant, exp) ==
    LET strip[m \in Int, e \in Int] ==
            IF m = 0 THEN [mant |-> 0, exp |-> 0]
            ELSE IF m % 10 = 0 THEN strip[m \div 10, e + 1]
            ELSE [mant |-> m, exp |-> e]
    IN  strip[mant, exp]

\* The number a decimal literal stands for.
to_numeric(s) ==
    LET number(n) ==
            LET e == IF n.neg THEN 0 - float(n.exp) ELSE float(n.exp)
                m == float(n.int \o n.frac)
            IN  Normal(IF n.minus THEN 0 - m ELSE m, e - Len(n.frac))
    IN  CHOOSE v \in {number(x) : x \in {NumberParts(s)}} : TRUE

RECURSIVE Pow10(_)
Pow10(k) == IF k = 0 THEN 1 ELSE 10 * Pow10(k - 1)

\* float(s) > n and float(s) == n for a decimal literal s and an integer n.
float_gt(s, n) ==
    LET v == to_numeric(s) IN
    IF v.exp >= 0 THEN v.mant * Pow10(v.exp) > n
    ELSE v.mant > n * Pow10(0 - v.exp)

float_eq(s, n) ==
    LET v == to_numeric(s) IN
    IF v.exp >= 0 THEN v.mant * Pow10(v.exp) = n
    ELSE v.mant = n * Pow10(0 - v.exp)

(***************************************************************************)
(* _material_to_code                                                       *)
(***************************************************************************)
material_map ==
    "UsrLamb" :> "0" @@ "UsrNLamb" :> "1" @@ "Water" :> "2" @@ "Snow" :> "3" @@
    "Neve" :> "4" @@ "Basalt" :> "5" @@ "Dry_sand" :> "6" @@ "WiteSand" :> "7" @@
    "Soil" :> "8" @@ "Dry_clay" :> "9" @@ "Wet_clay" :> "10" @@ "Alfalfa" :> "11" @@
    "Grass" :> "12" @@ "RyeGrass" :> "13" @@ "Meadow1" :> "14" @@ "Meadow2" :> "15" @@
    "Wheat" :> "16" @@ "PineTree" :> "17" @@ "Concrete" :> "18" @@ "BlckLoam" :> "19" @@
    "BrwnLoam" :> "20" @@ "BrwnSand" :> "21" @@ "Conifers" :> "22" @@ "DarkLoam" :> "23" @@
    "DarkSand" :> "24" @@ "Decidous" :> "25" @@ "DryGrass" :> "26" @@ "DuneSand" :> "27" @@
    "FineSnow" :> "28" @@ "GrnGrass" :> "29" @@ "GrnlSnow" :> "30" @@ "LiteClay" :> "31" @@
    "LiteLoam" :> "32" @@ "LiteSand" :> "33" @@ "PaleLoam" :> "34" @@ "Seawater" :> "35" @@
    "SolidIce" :> "36" @@ "Dry_Soil" :> "37" @@ "LiteSoil" :> "38" @@ "RConcrte" :> "39" @@
    "RoofTile" :> "40" @@ "RedBrick" :> "41" @@ "Asphalt" :> "42" @@ "TallCorn" :> "43" @@
    "SndGravl" :> "44" @@ "Fallow" :> "45" @@ "Birch" :> "46" @@ "WetSoil" :> "47" @@
    "Gravel" :> "48" @@ "WetClay2" :> "49" @@ "WetSilt" :> "50" @@ "LngGrass" :> "51" @@
    "LwnGrass" :> "52" @@ "OakTree" :> "53" @@ "Pinion" :> "54" @@ "MeltSnow" :> "55" @@
    "Plywood" :> "56" @@ "WiteVinl" :> "57" @@ "FibrGlss" :> "58" @@ "ShtMetal" :> "59" @@
    "Wetland" :> "60" @@ "SageBrsh" :> "61" @@ "FirTrees" :> "62" @@ "CSeaWatr" :> "63" @@
    "OSeaWatr" :> "64" @@ "GrazingField" :> "65" @@ "Spruce" :> "66"

MaterialNames == DOMAIN material_map

\* The largest code of the table.
MaxCode == 66

\* As _material_to_code, but handing back the key that was found.
_material_to_code_key(material) ==
    IF ~Truthy(material) THEN PyKeys(MaterialNames)
    ELSE IF material.v \notin MaterialNames THEN PyNone
    ELSE PyStr(material.v)

\* As _material_to_code, but without the "if not material" branch.
_material_to_code_nokeys(material) ==
    IF material = PyNone \/ material.v \notin MaterialNames THEN PyNone
    ELSE PyStr(material_map[material.v])

\* _material_to_code(material), material a PyNone or a PyStr.
_material_to_code(material) ==
    IF ~Truthy(material) THEN PyKeys(MaterialNames)
    ELSE IF material.v \notin MaterialNames THEN PyNone
    ELSE PyStr(material_map[material.v])

\* The keys of material_map in the order of the dict literal, which is the
\* order of their codes.
material_keys ==
    [k \in 1..Cardinality(MaterialNames) |->
        CHOOSE n \in MaterialNames : material_map[n] = str_of_int(k - 1)]

\* '{}'.format(x): a str as it is, None as 'None', the keys view of a dict
\* as dict_keys(['UsrLamb', 'UsrNLamb', ...]).
py_format(x) ==
    IF x.t = "str" THEN x.v
    ELSE IF x.t = "None" THEN "None"
    ELSE "dict_keys(["
         \o Join([k \in 1..Len(material_keys) |-> "'" \o material_keys[k] \o "'"], ", ")
         \o "])"

\* What _material_to_code prints on stdout.
_material_to_code_prints(material) ==
    IF Truthy(material) /\ material.v \notin MaterialNames
    THEN <<"Unknown material specified: '" \o material.v \o "'">>
    ELSE <<>>

(***************************************************************************)
(* The arguments of _smartsAll.  Reference holds the values SMARTSSpectra  *)
(* passes (smarts.py 146-525) for material 'Gravel'; the fields that       *)
(* SMARTSSpectra leaves '' carry a sample value, so that a field written   *)
(* on the wrong card or in the wrong place shows.  Configs varies one      *)
(* group of cards at a time, over every value of its option code, one      *)
(* value outside the option's domain, and the required field left ''.      *)
(***************************************************************************)
Reference ==
    [CMNT |-> "ASTMG173-03 (AM1.5 Standard)",
     ISPR |-> "1", SPR |-> "1013.25", ALTIT |-> "1.829", HEIGHT |-> "0",
     LATIT |-> "39.74",
     IATMOS |-> "1", ATMOS |-> "USSA", RH |-> "45.0", TAIR |-> "20.5",
     SEASON |-> "SUMMER", TDAY |-> "18.3",
     IH2O |-> "1", W |-> "1.42",
     IO3 |-> "1", IALT |-> "1", AbO3 |-> "0.3438",
     IGAS |-> "0", ILOAD |-> "1",
     ApCH2O |-> "0.007", ApCH4 |-> "0.3", ApCO |-> "0.35", ApHNO2 |-> "0.002",
     ApHNO3 |-> "0.005", ApNO |-> "0.2", ApNO2 |-> "0.02", ApNO3 |-> "5e-5",
     ApO3 |-> "0.053", ApSO2 |-> "0.05",
     qCO2 |-> "0.0", ISPCTR |-> "0",
     AEROS |-> "S&F_TROPO", ALPHA1 |-> "0.9", ALPHA2 |-> "1.4",
     OMEGL |-> "0.8", GG |-> "0.65",
     ITURB |-> "0", TAU5 |-> "0.00", BETA |-> "0.04", BCHUEP |-> "0.09",
     RANGE |-> "99", VISI |-> "77", TAU550 |-> "0.084",
     IALBDX |-> "48", RHOX |-> "0.2",
     ITILT |-> "1", IALBDG |-> "48", TILT |-> "0.0", WAZIM |-> "180.0",
     RHOG |-> "0.3",
     WLMN |-> "280", WLMX |-> "4000", SUNCOR |-> "1.0", SOLARC |-> "1367.0",
     IPRT |-> "2", WPMN |-> "280", WPMX |-> "4000", INTVL |-> ".5",
     IOUT |-> "30",
     ICIRC |-> "0", SLOPE |-> "0.5", APERT |-> "2.9", LIMIT |-> "1",
     ISCAN |-> "0", IFILT |-> "1", WV1 |-> "300", WV2 |-> "1100",
     STEP |-> "5", FWHM |-> "6",
     ILLUM |-> "0", IUV |-> "0",
     IMASS |-> "3", ZENITH |-> "48.2", AZIM |-> "170.5", ELEV |-> "41.8",
     AMASS |-> "1.5",
     YEAR |-> "2020", MONTH |-> "10", DAY |-> "21", HOUR |-> "12.75",
     LONGIT |-> "-105.18", ZONE |-> "-7", DSTEP |-> "15"]

ISPRCodes == {"0", "1", "2"}
IATMOSCodes == {"0", "1"}
IH2OCodes == {"0", "1", "2"}
IO3Codes == {"0", "1"}
IGASCodes == {"0", "1"}
ILOADCodes == {"0", "1", "2", "3", "4"}
ITURBCodes == {"0", "1", "2", "3", "4", "5"}
IMASSCodes == {"0", "1", "2", "3", "4"}

\* A value outside every option's domain.
BadCode == "9"

\* The length the code compares len(CMNT) with.
MaxComment == 62

RECURSIVE Filler(_)
\* A comment of n characters, with a blank in every tenth place.
Filler(n) ==
    IF n = 0 THEN ""
    ELSE Filler(n - 1) \o (IF n % 10 = 0 THEN " " ELSE Digits[(n % 10) + 1])

\* Comments shorter than, as long as and longer than MaxComment.
Comments == {Filler(n) : n \in {0, 9, MaxComment - 1, MaxComment,
                                MaxComment + 1, MaxComment + 8}}

Configs ==
    {[Reference EXCEPT !.ISPR = o, !.ALTIT = a] :
        o \in ISPRCodes \cup {BadCode}, a \in {Reference.ALTIT, ""}}
    \cup {[Reference EXCEPT !.IATMOS = o] : o \in IATMOSCodes \cup {BadCode}}
    \cup {[Reference EXCEPT !.IH2O = o, !.W = w] :
        o \in IH2OCodes \cup {BadCode}, w \in {Reference.W, ""}}
    \cup {[Reference EXCEPT !.IO3 = o] : o \in IO3Codes \cup {BadCode}}
    \cup {[Reference EXCEPT !.IGAS = o, !.ILOAD = l] :
        o \in IGASCodes \cup {BadCode}, l \in ILOADCodes}
    \cup {[Reference EXCEPT !.ITURB = o] : o \in ITURBCodes \cup {BadCode}}
    \cup {[Reference EXCEPT !.IMASS = o, !.ZENITH = z] :
        o \in IMASSCodes \cup {BadCode}, z \in {Reference.ZENITH, ""}}
    \cup {[Reference EXCEPT !.AEROS = a, !.IALBDX = x, !.ITILT = t, !.IALBDG = g] :
        a \in {"USER", "S&F_TROPO"}, x \in {"-1", "48"},
        t \in {"0", "1"}, g \in {"-1", "48"}}
    \cup {[Reference EXCEPT !.IPRT = o, !.IOUT = io] :
        o \in {"0", "1", "2", "3", ""}, io \in {"30", "1 2 30", "8  30"}}
    \cup {[Reference EXCEPT !.CMNT = c] : c \in Comments}
    \cup {[Reference EXCEPT !.ISPR = o, !.IATMOS = o, !.IH2O = o, !.IO3 = o,
                            !.IGAS = o, !.ILOAD = o, !.ITURB = o, !.IMASS = o,
                            !.ICIRC = o, !.ISCAN = o] : o \in {"0", "1"}}

(***************************************************************************)
(* The card encoder, smarts.py 2401-2633.  A line of the input file is     *)
(* [card, text]: text is what print(..., file=f) writes, without the       *)
(* newline, and card names the card as the comment above the print does.   *)
(***************************************************************************)
Line(card, text) == [card |-> card, text |-> text]

Card1(p) ==
    LET cut == IF Len(p.CMNT) > 62 THEN SubSeq(p.CMNT, 1, 61) ELSE p.CMNT
    IN  <<Line("1", "'" \o str_replace(cut, " ", "_") \o "'")>>

Card2(p) ==
    <<Line("2", p.ISPR)>> \o
    (IF p.ISPR = "0" THEN <<Line("2a", p.SPR)>>
     ELSE IF p.ISPR = "1"
          THEN <<Line("2a", p.SPR \o " " \o p.ALTIT \o " " \o p.HEIGHT)>>
     ELSE IF p.ISPR = "2"
          THEN <<Line("2a", p.LATIT \o " " \o p.ALTIT \o " " \o p.HEIGHT)>>
     ELSE <<>>)

Card3(p) ==
    <<Line("3", p.IATMOS)>> \o
    (IF p.IATMOS = "0"
     THEN <<Line("3a", p.TAIR \o " " \o p.RH \o " " \o p.SEASON \o " " \o p.TDAY)>>
     ELSE IF p.IATMOS = "1" THEN <<Line("3a", "'" \o p.ATMOS \o "'")>>
     ELSE <<>>)

Card4(p) ==
    <<Line("4", p.IH2O)>> \o
    (IF p.IH2O = "0" THEN <<Line("4a", p.W)>> ELSE <<>>)

Card5(p) ==
    <<Line("5", p.IO3)>> \o
    (IF p.IO3 = "0" THEN <<Line("5a", p.IALT \o " " \o p.AbO3)>> ELSE <<>>)

Card6(p) ==
    <<Line("6", p.IGAS)>> \o
    (IF p.IGAS = "0"
     THEN <<Line("6a", p.ILOAD)>> \o
          (IF p.ILOAD = "0"
           THEN <<Line("6b", p.ApCH2O \o " " \o p.ApCH4 \o " " \o p.ApCO \o " "
                       \o p.ApHNO2 \o " " \o p.ApHNO3 \o " " \o p.ApNO \o " "
                       \o p.ApNO2 \o " " \o p.ApNO3 \o " " \o p.ApO3 \o " "
                       \o p.ApSO2 \o " ")>>
           ELSE <<>>)
     ELSE <<>>)

Card7(p) == <<Line("7", p.qCO2), Line("7a", p.ISPCTR)>>

\* As Card8, with the print("") of the else branch going to the file.
Card8_blank(p) ==
    LET AEROS == "'" \o p.AEROS \o "'"
    IN  <<Line("8", AEROS)>> \o
        (IF AEROS = "'USER'"
         THEN <<Line("8a", p.ALPHA1 \o " " \o p.ALPHA2 \o " " \o p.OMEGL
                     \o " " \o p.GG)>>
         ELSE <<Line("8a", "")>>)

Card8(p) ==
    LET AEROS == "'" \o p.AEROS \o "'"
    IN  <<Line("8", AEROS)>> \o
        (IF AEROS = "'USER'"
         THEN <<Line("8a", p.ALPHA1 \o " " \o p.ALPHA2 \o " " \o p.OMEGL
                     \o " " \o p.GG)>>
         ELSE <<>>)

Card9(p) ==
    <<Line("9", p.ITURB)>> \o
    (IF p.ITURB = "0" THEN <<Line("9a", p.TAU5)>>
     ELSE IF p.ITURB = "1" THEN <<Line("9a", p.BETA)>>
     ELSE IF p.ITURB = "2" THEN <<Line("9a", p.BCHUEP)>>
     ELSE IF p.ITURB = "3" THEN <<Line("9a", p.RANGE)>>
     ELSE IF p.ITURB = "4" THEN <<Line("9a", p.VISI)>>
     ELSE IF p.ITURB = "5" THEN <<Line("9a", p.TAU550)>>
     ELSE <<>>)

Card10(p) ==
    <<Line("10", p.IALBDX)>> \o
    (IF p.IALBDX = "-1" THEN <<Line("10a", p.RHOX)>> ELSE <<>>) \o
    <<Line("10b", p.ITILT)>> \o
    (IF p.ITILT = "1"
     THEN <<Line("10c", p.IALBDG \o " " \o p.TILT \o " " \o p.WAZIM)>> \o
          (IF p.IALBDG = "-1" THEN <<Line("10d", p.RHOG)>> ELSE <<>>)
     ELSE <<>>)

Card11(p) ==
    <<Line("11", p.WLMN \o " " \o p.WLMX \o " " \o p.SUNCOR \o " " \o p.SOLARC)>>

\* Card 12 after float(IPRT) has succeeded.
Card12(p) ==
    LET IOTOT == str_split_len(p.IOUT)
    IN  <<Line("12", p.IPRT)>> \o
        (IF float(p.IPRT) >= 1
         THEN <<Line("12a", p.WPMN \o " " \o p.WPMX \o " " \o p.INTVL)>> \o
              (IF float(p.IPRT) = 2 \/ float(p.IPRT) = 3
               THEN <<Line("12b", str_of_int(IOTOT)), Line("12c", p.IOUT)>>
               ELSE <<>>)
         ELSE <<>>)

Card13(p) ==
    <<Line("13", p.ICIRC)>> \o
    (IF p.ICIRC = "1"
     THEN <<Line("13a", p.SLOPE \o " " \o p.APERT \o " " \o p.LIMIT)>>
     ELSE <<>>)

Card14(p) ==
    <<Line("14", p.ISCAN)>> \o
    (IF p.ISCAN = "1"
     THEN <<Line("14a", p.IFILT \o " " \o p.WV1 \o " " \o p.WV2 \o " "
                 \o p.STEP \o " " \o p.FWHM)>>
     ELSE <<>>)

Card15(p) == <<Line("15", p.ILLUM)>>

Card16(p) == <<Line("16", p.IUV)>>

\* As Card17, with ELEV written for IMASS 0 and ZENITH for IMASS 1.
Card17_swapped(p) ==
    <<Line("17", p.IMASS)>> \o
    (IF p.IMASS = "0" THEN <<Line("17a", p.ELEV \o " " \o p.AZIM)>>
     ELSE IF p.IMASS = "1" THEN <<Line("17a", p.ZENITH \o " " \o p.AZIM)>>
     ELSE IF p.IMASS = "2" THEN <<Line("17a", p.AMASS)>>
     ELSE IF p.IMASS = "3"
          THEN <<Line("17a", p.YEAR \o " " \o p.MONTH \o " " \o p.DAY \o " "
                      \o p.HOUR \o " " \o p.LATIT \o " " \o p.LONGIT \o " "
                      \o p.ZONE)>>
     ELSE IF p.IMASS = "4"
          THEN <<Line("17a", p.MONTH \o ", " \o p.LATIT \o ", " \o p.DSTEP)>>
     ELSE <<>>)

Card17(p) ==
    <<Line("17", p.IMASS)>> \o
    (IF p.IMASS = "0" THEN <<Line("17a", p.ZENITH \o " " \o p.AZIM)>>
     ELSE IF p.IMASS = "1" THEN <<Line("17a", p.ELEV \o " " \o p.AZIM)>>
     ELSE IF p.IMASS = "2" THEN <<Line("17a", p.AMASS)>>
     ELSE IF p.IMASS = "3"
          THEN <<Line("17a", p.YEAR \o " " \o p.MONTH \o " " \o p.DAY \o " "
                      \o p.HOUR \o " " \o p.LATIT \o " " \o p.LONGIT \o " "
                      \o p.ZONE)>>
     ELSE IF p.IMASS = "4"
          THEN <<Line("17a", p.MONTH \o ", " \o p.LATIT \o ", " \o p.DSTEP)>>
     ELSE <<>>)

\* "Input Finalization": print('', file=f).
CardEnd == <<Line("end", "")>>

\* An encoder that goes on after float(IPRT) has failed.
EncodeCards_goes_on(p) ==
    LET upto11 == Card1(p) \o Card2(p) \o Card3(p) \o Card4(p) \o Card5(p)
                  \o Card6(p) \o Card7(p) \o Card8(p) \o Card9(p)
                  \o Card10(p) \o Card11(p)
    IN  IF ~IsFloatLiteral(p.IPRT)
        THEN [lines |-> upto11 \o <<Line("12", p.IPRT)>>, raised |-> "none"]
        ELSE [lines |-> upto11 \o Card12(p) \o Card13(p) \o Card14(p)
                        \o Card15(p) \o Card16(p) \o Card17(p) \o CardEnd,
              raised |-> "none"]

\* The lines the encoder writes and the exception that stops it, if any:
\* float(IPRT) raises ValueError after the card 12 option line is written.
EncodeCards(p) ==
    LET upto11 == Card1(p) \o Card2(p) \o Card3(p) \o Card4(p) \o Card5(p)
                  \o Card6(p) \o Card7(p) \o Card8(p) \o Card9(p)
                  \o Card10(p) \o Card11(p)
    IN  IF ~IsFloatLiteral(p.IPRT)
        THEN [lines |-> upto11 \o <<Line("12", p.IPRT)>>, raised |-> "ValueError"]
        ELSE [lines |-> upto11 \o Card12(p) \o Card13(p) \o Card14(p)
                        \o Card15(p) \o Card16(p) \o Card17(p) \o CardEnd,
              raised |-> "none"]

\* What the encoder prints on stdout (not into the file).
EncodeDiagnostics(p) ==
    (IF p.ISPR \notin {"0", "1", "2"}
     THEN <<"ISPR Error. ISPR should be 0, 1 or 2. Currently ISPR =  " \o p.ISPR>>
     ELSE <<>>) \o
    (IF p.IGAS = "1" THEN <<"">> ELSE <<>>) \o
    (IF p.ITURB \notin {"0", "1", "2", "3", "4", "5"}
     THEN <<"Error: Card 9 needs to be input. Assign a valid value to ITURB =  "
            \o p.ITURB>>
     ELSE <<>>)

(***************************************************************************)
(* The process and its surroundings.                                       *)
(***************************************************************************)
VARIABLES
    environ,      \* os.environ, a set of <<name, value>> pairs
    undeletable,  \* the file names os.remove fails on (in use, protected)
    cwd,          \* the working directory of the process
    fs,           \* fs[dir][name]: the files of each directory
    pc,           \* pc[i]: where invocation i of _smartsAll stands
    params,       \* params[i]: the arguments of invocation i
    caller,       \* caller[i]: the function that made call i and its material
    entry_wd,     \* entry_wd[i]: cwd when invocation i was entered
    original_wd,  \* the local original_wd of invocation i
    command,      \* the local command of invocation i
    proc_wd,      \* the working directory of the engine process of invocation i
    returncode,   \* the exit status of the engine process of invocation i
    data,         \* the local data of invocation i, the value it returns
    raised,       \* the exception that ended invocation i, or "none"
    stdout,       \* what invocation i has printed
    io,           \* the file and process operations invocation i has made
    material,     \* the argument of the _material_to_code call
    mat_result,   \* what that call returned
    mat_stdout    \* what that call printed

vars == <<environ, undeletable, cwd, fs, pc, params, caller, entry_wd, original_wd, command,
          proc_wd, returncode, data, raised, stdout, io, material, mat_result,
          mat_stdout>>

smartsVars == <<pc, params, caller, entry_wd, original_wd, command, proc_wd,
                returncode, data,
                raised, stdout, io>>

matVars == <<material, mat_result, mat_stdout>>

\* The invocations of _smartsAll a behaviour may hold; Callers are those
\* that run under Spec, one call after the other.
Invs == {1, 2}
Callers == {1}

CallerDir == "/home/user/project"
EngineHome == "/opt/SMARTS_295"
Dirs == {CallerDir, EngineHome}

INP == "smarts295.inp.txt"
OUT == "smarts295.out.txt"
EXT == "smarts295.ext.txt"
SCN == "smarts295.scn.txt"
TransientFiles == <<INP, OUT, EXT, SCN>>
commands == <<"smarts295bat", "smarts295bat.exe">>
OUTPUT_TXT == "output.txt"
FileNames == {INP, OUT, EXT, SCN, OUTPUT_TXT, commands[1], commands[2]}

\* A file: whether it exists, its content, and by: the invocation it was
\* written for (0 for a file no invocation of the behaviour wrote).
NoFile == [exists |-> FALSE, data |-> <<>>, by |-> 0]
FileOf(content) == [exists |-> TRUE, data |-> content, by |-> 0]
FileBy(content, i) == [exists |-> TRUE, data |-> content, by |-> i]

\* What the engine writes to smarts295.ext.txt: a header and the data rows.
GoodExt == <<"Wvlgth Zonal_ground_reflectance",
             "280.0 0.1412E+00", " 280.5  0.1415">>
StaleExt == <<"Wvlgth Global_tilted_irradiance", "300.0 0.9000E-03">>
StaleInp == <<Line("1", "'stale'")>>

StaleContent(name) ==
    IF name = INP THEN StaleInp ELSE IF name = EXT THEN StaleExt ELSE <<>>

\* The directory a call made from CallerDir works in.
RunDir(env) == IF \E e \in env : e[1] = "SMARTSPATH" THEN EngineHome ELSE CallerDir

NoneWd == "None"
\* _smartsAll called directly, not through a public function.
\* A call is known by its function, by the material, BETA, TAU5 and W
\* arguments that function was given, and by what it printed before it
\* called _smartsAll.
Via(fn, mat, BETA, TAU5, W, printed) ==
    [fn |-> fn, material |-> mat, BETA |-> BETA, TAU5 |-> TAU5, W |-> W,
     printed |-> printed]
DirectCall == Via("_smartsAll", PyNone, PyNone, PyNone, PyNone, <<>>)
NoCommand == "None"
Pending == [t |-> "pending"]

\* os.path.exists(name) in directory d.
path_exists(d, name) == fs[d][name].exists

\* An exclusive open, which leaves a file of another invocation alone.
open_x(dir, name, i) ==
    IF dir[name].exists /\ dir[name].by # i THEN dir
    ELSE [dir EXCEPT ![name] = FileBy(<<>>, i)]

\* An open for appending, which keeps what is in the file.
open_a(dir, name, i) ==
    IF dir[name].exists THEN [dir EXCEPT ![name] = FileBy(dir[name].data, i)]
    ELSE [dir EXCEPT ![name] = FileBy(<<>>, i)]

\* open(name, 'w') in the directory dir by invocation i: the file is created
\* or truncated, whoever wrote it.
open_w(dir, name, i) == [dir EXCEPT ![name] = FileBy(<<>>, i)]

\* os.remove(name) in the directory dir: the directory afterwards and the
\* error raised, for a missing file and for one that cannot be deleted.
os_remove(dir, name, locked) ==
    IF ~dir[name].exists THEN [dir |-> dir, error |-> "FileNotFoundError"]
    ELSE IF name \in locked THEN [dir |-> dir, error |-> "PermissionError"]
    ELSE [dir |-> [dir EXCEPT ![name] = NoFile], error |-> "none"]

\* As try_remove, without the try/except around os.remove.
try_remove_bare(dir, name, locked) ==
    [dir |-> os_remove(dir, name, locked).dir,
     raised |-> os_remove(dir, name, locked).error]

\* try: os.remove(name) / except: pass.
try_remove(dir, name, locked) ==
    [dir |-> os_remove(dir, name, locked).dir, raised |-> "none"]

RECURSIVE remove_all(_, _, _)
\* The four try/except blocks in a row: an exception that got out of one
\* would skip the rest.
remove_all(dir, names, locked) ==
    IF names = <<>> THEN [dir |-> dir, raised |-> "none"]
    ELSE LET r == try_remove(dir, Head(names), locked)
         IN  IF r.raised # "none" THEN r
             ELSE remove_all(r.dir, Tail(names), locked)

\* What a pass over names does: the files it deletes and the deletions
\* that fail for another reason than the file not being there.
Removed(dir, names, locked) ==
    {"remove:" \o names[k] :
        k \in {j \in 1..Len(names) :
                 os_remove(dir, names[j], locked).error = "none"}}
    \cup {"remove_failed:" \o names[k] :
        k \in {j \in 1..Len(names) :
                 os_remove(dir, names[j], locked).error = "PermissionError"}}

\* With header=None the first line is data and the columns have no names.
read_csv_noheader(f) ==
    IF ~f.exists THEN [raised |-> "FileNotFoundError", data |-> PyNone]
    ELSE IF f.data = <<>> THEN [raised |-> "EmptyDataError", data |-> PyNone]
    ELSE [raised |-> "none",
          data |-> PyTable([columns |-> [c \in 1..Len(Tokens(f.data[1])) |-> str_of_int(c - 1)],
                            rows |-> [r \in 1..Len(f.data) |->
                                [c \in 1..Len(Tokens(f.data[r])) |->
                                    PyStr(Tokens(f.data[r])[c])]]])]

\* pd.read_csv(EXT, delim_whitespace=True) on the file f: the words of the
\* first line name the columns, each other line is a row; a column of
\* integer literals is int64, one of decimal literals float64 (a missing
\* cell is NaN), any other stays text; a row longer than the header is a
\* ParserError.
read_csv(f) ==
    IF ~f.exists THEN [raised |-> "FileNotFoundError", data |-> PyNone]
    ELSE IF f.data = <<>> THEN [raised |-> "EmptyDataError", data |-> PyNone]
    ELSE
      LET names == Tokens(Head(f.data))
          body == [r \in 1..(Len(f.data) - 1) |-> Tokens(f.data[r + 1])]
          has(r, c) == c <= Len(body[r])
          dtype(c) ==
              IF \A r \in 1..Len(body) : has(r, c) /\ IsFloatLiteral(body[r][c])
              THEN "int64"
              ELSE IF \A r \in 1..Len(body) : has(r, c) => IsNumber(body[r][c])
              THEN "float64"
              ELSE "object"
          cell(r, c) ==
              IF ~has(r, c) THEN [t |-> "float64", nan |-> TRUE]
              ELSE IF dtype(c) = "int64" THEN [t |-> "int64", nan |-> FALSE, v |-> to_numeric(body[r][c])]
              ELSE IF dtype(c) = "float64"
              THEN [t |-> "float64", nan |-> FALSE, v |-> to_numeric(body[r][c])]
              ELSE PyStr(body[r][c])
      IN  IF \E r \in 1..Len(body) : Len(body[r]) > Len(names)
          THEN [raised |-> "ParserError", data |-> PyNone]
          ELSE [raised |-> "none",
                data |-> PyTable([columns |-> names,
                                  rows |-> [r \in 1..Len(body) |->
                                      [c \in 1..Len(names) |-> cell(r, c)]]])]

\* As find_command, falling back on the last candidate without looking.
find_command_fallback(d) ==
    IF path_exists(d, commands[1]) THEN commands[1] ELSE commands[2]

\* The first of commands that exists in directory d, NoCommand if none.
find_command(d) ==
    IF path_exists(d, commands[1]) THEN commands[1]
    ELSE IF path_exists(d, commands[2]) THEN commands[2]
    ELSE NoCommand

\* What the engine process may leave behind when it exits.
EngineOutcomes ==
    {[ext |-> "table", rc |-> 0], [ext |-> "table", rc |-> 1],
     [ext |-> "empty", rc |-> 1], [ext |-> "none", rc |-> 1],
     [ext |-> "none", rc |-> 0]}

\* The sets of undeletable files a behaviour may start with.
FaultSets == {{}, {EXT}, {INP}}

\* The sets of transient files an earlier run may have left behind.
StaleSets == {{}, {EXT}, {INP, OUT}, {INP, OUT, EXT, SCN}}

InitFiles ==
    /\ environ \in {{}, {<<"SMARTSPATH", EngineHome>>}}
    /\ undeletable \in FaultSets
    /\ cwd = CallerDir
    /\ \E stale \in StaleSets, exes \in SUBSET {commands[1], commands[2]} :
         /\ undeletable \subseteq stale
         /\ fs = [d \in Dirs |-> [n \in FileNames |->
                 IF d = RunDir(environ) /\ n \in stale THEN FileOf(StaleContent(n))
                 ELSE IF d = RunDir(environ) /\ n \in exes THEN FileOf(<<>>)
                 ELSE NoFile]]

InitSmarts ==
    /\ pc = [i \in Invs |-> "idle"]
    /\ params = [i \in Invs |-> Reference]
    /\ caller = [i \in Invs |-> DirectCall]
    /\ entry_wd = [i \in Invs |-> NoneWd]
    /\ original_wd = [i \in Invs |-> NoneWd]
    /\ command = [i \in Invs |-> NoCommand]
    /\ proc_wd = [i \in Invs |-> NoneWd]
    /\ returncode = [i \in Invs |-> 0]
    /\ data = [i \in Invs |-> Pending]
    /\ raised = [i \in Invs |-> "none"]
    /\ stdout = [i \in Invs |-> <<>>]
    /\ io = [i \in Invs |-> {}]

Init ==
    /\ InitFiles
    /\ InitSmarts
    /\ material = PyNone
    /\ mat_result = Pending
    /\ mat_stdout = <<>>

(***************************************************************************)
(* _smartsAll, smarts.py 2355-2676, one action per step.                   *)
(***************************************************************************)
\* 2377-2380: remember the working directory and change to SMARTSPATH;
\* cfg are the arguments and via the function that makes the call.
Begin(i, cfg, via) ==
    /\ pc[i] = "idle"
    /\ params' = [params EXCEPT ![i] = cfg]
    /\ caller' = [caller EXCEPT ![i] = via]
    /\ entry_wd' = [entry_wd EXCEPT ![i] = cwd]
    /\ IF \E e \in environ : e[1] = "SMARTSPATH"
       THEN /\ original_wd' = [original_wd EXCEPT ![i] = cwd]
            /\ cwd' = (CHOOSE e \in environ : e[1] = "SMARTSPATH")[2]
            /\ io' = [io EXCEPT ![i] = {"chdir"}]
       ELSE /\ original_wd' = [original_wd EXCEPT ![i] = NoneWd]
            /\ cwd' = cwd
            /\ io' = [io EXCEPT ![i] = {}]
    /\ command' = [command EXCEPT ![i] = NoCommand]
    /\ returncode' = [returncode EXCEPT ![i] = 0]
    /\ data' = [data EXCEPT ![i] = Pending]
    /\ raised' = [raised EXCEPT ![i] = "none"]
    /\ stdout' = [stdout EXCEPT ![i] = via.printed]
    /\ pc' = [pc EXCEPT ![i] = "remove_stale"]
    /\ proc_wd' = [proc_wd EXCEPT ![i] = NoneWd]
    /\ UNCHANGED <<environ, undeletable, fs, matVars>>

\* A direct call of _smartsAll.
Enter(i) == \E cfg \in Configs : Begin(i, cfg, DirectCall)

\* 2382-2397: remove the four transient files, ignoring every error.
RemoveStale(i) ==
    LET r == remove_all(fs[cwd], TransientFiles, undeletable) IN
    /\ pc[i] = "remove_stale"
    /\ fs' = [fs EXCEPT ![cwd] = r.dir]
    /\ io' = [io EXCEPT ![i] = @ \cup Removed(fs[cwd], TransientFiles, undeletable)]
    /\ raised' = [raised EXCEPT ![i] = r.raised]
    /\ pc' = [pc EXCEPT ![i] = IF r.raised = "none" THEN "open" ELSE "raised"]
    /\ UNCHANGED <<environ, undeletable, cwd, params, caller, entry_wd,
                   original_wd, command, returncode, data, stdout, proc_wd, matVars>>

\* 2399: f = open('smarts295.inp.txt', 'w').
OpenInput(i) ==
    /\ pc[i] = "open"
    /\ fs' = [fs EXCEPT ![cwd] = open_w(@, INP, i)]
    /\ io' = [io EXCEPT ![i] = @ \cup {"open:" \o INP}]
    /\ pc' = [pc EXCEPT ![i] = "encode"]
    /\ UNCHANGED <<environ, undeletable, cwd, params, caller, entry_wd, original_wd, command,
                   returncode, data, raised, stdout, proc_wd, matVars>>

\* 2401-2634: write the cards after what the opened file holds and close
\* it; an exception leaves the lines written so far and ends the call.
Encode(i) ==
    LET e == EncodeCards(params[i]) IN
    /\ pc[i] = "encode"
    /\ fs' = [fs EXCEPT ![cwd][INP] = FileBy(@.data \o e.lines, i)]
    /\ io' = [io EXCEPT ![i] = @ \cup {"write:" \o INP}]
    /\ stdout' = [stdout EXCEPT ![i] = @ \o EncodeDiagnostics(params[i])]
    /\ raised' = [raised EXCEPT ![i] = e.raised]
    /\ pc' = [pc EXCEPT ![i] = IF e.raised = "none" THEN "locate" ELSE "raised"]
    /\ UNCHANGED <<environ, undeletable, cwd, params, caller, entry_wd, original_wd, command,
                   returncode, data, proc_wd, matVars>>

\* 2638-2647: look for the executable; without one print and set data = None.
Locate(i) ==
    LET cmd == find_command(cwd) IN
    /\ pc[i] = "locate"
    /\ command' = [command EXCEPT ![i] = cmd]
    /\ IF cmd = NoCommand
       THEN /\ stdout' = [stdout EXCEPT ![i] =
                            Append(@, "Could not find SMARTS2 executable.")]
            /\ data' = [data EXCEPT ![i] = PyNone]
            /\ pc' = [pc EXCEPT ![i] = "remove_transient"]
       ELSE /\ UNCHANGED <<stdout, data>>
            /\ pc' = [pc EXCEPT ![i] = "popen"]
    /\ UNCHANGED <<environ, undeletable, cwd, fs, params, caller, entry_wd, original_wd,
                   returncode, raised, io, proc_wd, matVars>>

\* 2649: subprocess.Popen(command, stdout=open("output.txt", "w"), ...);
\* starting the process may fail with OSError.
StartEngine(i) ==
    /\ pc[i] = "popen"
    /\ \E started \in BOOLEAN :
         IF started
         THEN /\ fs' = [fs EXCEPT ![cwd][OUTPUT_TXT] = FileBy(<<>>, i)]
              /\ io' = [io EXCEPT ![i] = @ \cup {"open:" \o OUTPUT_TXT, "popen"}]
              /\ proc_wd' = [proc_wd EXCEPT ![i] = cwd]
              /\ pc' = [pc EXCEPT ![i] = "wait"]
              /\ UNCHANGED raised
         ELSE /\ raised' = [raised EXCEPT ![i] = "OSError"]
              /\ pc' = [pc EXCEPT ![i] = "raised"]
              /\ UNCHANGED <<fs, io, proc_wd>>
    /\ UNCHANGED <<environ, undeletable, cwd, params, caller, entry_wd,
                   original_wd, command, returncode, data, stdout, matVars>>

\* A wait with a timeout: the call may give up on a process that runs.
EngineExit_timeout(i) ==
    /\ pc[i] = "wait"
    /\ raised' = [raised EXCEPT ![i] = "TimeoutExpired"]
    /\ pc' = [pc EXCEPT ![i] = "raised"]
    /\ UNCHANGED <<environ, undeletable, cwd, fs, params, caller, entry_wd,
                   original_wd, command, proc_wd, returncode, data, stdout, io,
                   matVars>>

\* 2650: p.wait() returns when the engine process has exited.  In its own
\* working directory the engine has read the input file and has written
\* its files, or has not; a table needs an input file with cards in it, and
\* is the table for the invocation that wrote those cards.
EngineExit(i) ==
    LET d == proc_wd[i]
        inp == fs[d][INP]
    IN
    /\ pc[i] = "wait"
    /\ \E o \in EngineOutcomes :
         /\ o.ext = "table" => (inp.exists /\ inp.data # <<>>)
         /\ returncode' = [returncode EXCEPT ![i] = o.rc]
         /\ fs' = [fs EXCEPT ![d] =
                     IF o.ext = "table"
                     THEN [@ EXCEPT ![EXT] = FileBy(GoodExt, inp.by),
                                    ![OUT] = FileBy(<<>>, inp.by)]
                     ELSE IF o.ext = "empty"
                     THEN [@ EXCEPT ![EXT] = FileBy(<<>>, inp.by),
                                    ![OUT] = FileBy(<<>>, inp.by)]
                     ELSE @]
         /\ io' = [io EXCEPT ![i] = @ \cup
                     (IF inp.exists THEN {"engine_read:" \o INP} ELSE {}) \cup
                     (IF o.ext = "none" THEN {}
                      ELSE {"engine_wrote:" \o EXT, "engine_wrote:" \o OUT})]
    /\ pc' = [pc EXCEPT ![i] = "read"]
    /\ UNCHANGED <<environ, undeletable, cwd, params, caller, entry_wd,
                   original_wd, command, proc_wd, data, raised, stdout, matVars>>

\* 2653: data = pd.read_csv('smarts295.ext.txt', delim_whitespace=True).
ReadOutput(i) ==
    LET r == read_csv(fs[cwd][EXT]) IN
    /\ pc[i] = "read"
    /\ io' = [io EXCEPT ![i] = @ \cup {"read:" \o EXT}]
    /\ raised' = [raised EXCEPT ![i] = r.raised]
    /\ data' = [data EXCEPT ![i] = IF r.raised = "none" THEN r.data ELSE @]
    /\ pc' = [pc EXCEPT ![i] = IF r.raised = "none" THEN "remove_transient" ELSE "raised"]
    /\ UNCHANGED <<environ, undeletable, cwd, fs, params, caller, entry_wd, original_wd, command,
                   returncode, stdout, proc_wd, matVars>>

\* 2655-2670: remove the four transient files again.
RemoveTransient(i) ==
    LET r == remove_all(fs[cwd], TransientFiles, undeletable) IN
    /\ pc[i] = "remove_transient"
    /\ fs' = [fs EXCEPT ![cwd] = r.dir]
    /\ io' = [io EXCEPT ![i] = @ \cup Removed(fs[cwd], TransientFiles, undeletable)]
    /\ raised' = [raised EXCEPT ![i] = r.raised]
    /\ pc' = [pc EXCEPT ![i] = IF r.raised = "none" THEN "restore" ELSE "raised"]
    /\ UNCHANGED <<environ, undeletable, cwd, params, caller, entry_wd,
                   original_wd, command, returncode, data, stdout, proc_wd, matVars>>

\* 2672-2676: change back to original_wd if it was set, and return data.
Restore(i) ==
    /\ pc[i] = "restore"
    /\ cwd' = IF original_wd[i] # NoneWd /\ original_wd[i] # ""
              THEN original_wd[i] ELSE cwd
    /\ pc' = [pc EXCEPT ![i] = "returned"]
    /\ UNCHANGED <<environ, undeletable, fs, params, caller, entry_wd, original_wd, command,
                   returncode, data, raised, stdout, io, proc_wd, matVars>>

\* The call is over and its locals are gone: the caller goes on and may
\* call again.
Finish(i) ==
    /\ pc[i] \in {"returned", "raised"}
    /\ pc' = [pc EXCEPT ![i] = "idle"]
    /\ params' = [params EXCEPT ![i] = Reference]
    /\ caller' = [caller EXCEPT ![i] = DirectCall]
    /\ entry_wd' = [entry_wd EXCEPT ![i] = NoneWd]
    /\ original_wd' = [original_wd EXCEPT ![i] = NoneWd]
    /\ command' = [command EXCEPT ![i] = NoCommand]
    /\ returncode' = [returncode EXCEPT ![i] = 0]
    /\ data' = [data EXCEPT ![i] = Pending]
    /\ raised' = [raised EXCEPT ![i] = "none"]
    /\ stdout' = [stdout EXCEPT ![i] = <<>>]
    /\ io' = [io EXCEPT ![i] = {}]
    /\ proc_wd' = [proc_wd EXCEPT ![i] = NoneWd]
    /\ UNCHANGED <<environ, undeletable, cwd, fs, matVars>>

Next ==
    \E i \in Callers :
        \/ Enter(i)
        \/ RemoveStale(i)
        \/ OpenInput(i)
        \/ Encode(i)
        \/ Locate(i)
        \/ StartEngine(i)
        \/ EngineExit(i)
        \/ ReadOutput(i)
        \/ RemoveTransient(i)
        \/ Restore(i)
        \/ Finish(i)

Spec == Init /\ [][Next]_vars

(***************************************************************************)
(* The public function SMARTSSpectra, smarts.py 101-529: it sets every     *)
(* argument of _smartsAll, card 10 from _material_to_code(material), and   *)
(* returns what _smartsAll returns.  An argument that is not a str is      *)
(* carried as the text '{}'.format makes of it, which is all the encoder   *)
(* does with it.                                                           *)
(***************************************************************************)
\* As SMARTSSpectra, with the material argument ignored for its default.
SMARTSSpectra_default(IOUT, YEAR, MONTH, DAY, HOUR, LATIT, LONGIT, ALTIT, ZONE, mat, min_wvl, max_wvl) ==
    [Reference EXCEPT
        !.IOUT = IOUT, !.YEAR = YEAR, !.MONTH = MONTH, !.DAY = DAY,
        !.HOUR = HOUR, !.LATIT = LATIT, !.LONGIT = LONGIT, !.ALTIT = ALTIT,
        !.ZONE = ZONE, !.WLMN = min_wvl, !.WLMX = max_wvl, !.WPMN = min_wvl,
        !.WPMX = max_wvl,
        !.IALBDX = py_format(_material_to_code(PyStr("LiteSoil"))),
        !.IALBDG = py_format(_material_to_code(PyStr("LiteSoil")))]

SMARTSSpectra(IOUT, YEAR, MONTH, DAY, HOUR, LATIT, LONGIT, ALTIT, ZONE, mat, min_wvl, max_wvl) ==
    LET IALBDX == py_format(_material_to_code(mat)) IN
    [CMNT |-> "ASTMG173-03 (AM1.5 Standard)",
     ISPR |-> "1", SPR |-> "1013.25", ALTIT |-> ALTIT, HEIGHT |-> "0",
     LATIT |-> LATIT,
     IATMOS |-> "1", ATMOS |-> "USSA", RH |-> "", TAIR |-> "",
     SEASON |-> "", TDAY |-> "",
     IH2O |-> "1", W |-> "",
     IO3 |-> "1", IALT |-> "", AbO3 |-> "",
     IGAS |-> "0", ILOAD |-> "1",
     ApCH2O |-> "", ApCH4 |-> "", ApCO |-> "", ApHNO2 |-> "",
     ApHNO3 |-> "", ApNO |-> "", ApNO2 |-> "", ApNO3 |-> "",
     ApO3 |-> "", ApSO2 |-> "",
     qCO2 |-> "0.0", ISPCTR |-> "0",
     AEROS |-> "S&F_TROPO", ALPHA1 |-> "", ALPHA2 |-> "",
     OMEGL |-> "", GG |-> "",
     ITURB |-> "0", TAU5 |-> "0.00", BETA |-> "", BCHUEP |-> "",
     RANGE |-> "", VISI |-> "", TAU550 |-> "",
     IALBDX |-> IALBDX, RHOX |-> "",
     ITILT |-> "1", IALBDG |-> IALBDX, TILT |-> "0.0", WAZIM |-> "180.0",
     RHOG |-> "",
     WLMN |-> min_wvl, WLMX |-> max_wvl, SUNCOR |-> "1.0", SOLARC |-> "1367.0",
     IPRT |-> "2", WPMN |-> min_wvl, WPMX |-> max_wvl, INTVL |-> ".5",
     IOUT |-> IOUT,
     ICIRC |-> "0", SLOPE |-> "", APERT |-> "", LIMIT |-> "",
     ISCAN |-> "0", IFILT |-> "", WV1 |-> "", WV2 |-> "",
     STEP |-> "", FWHM |-> "",
     ILLUM |-> "0", IUV |-> "0",
     IMASS |-> "3", ZENITH |-> "", AZIM |-> "", ELEV |-> "",
     AMASS |-> "",
     YEAR |-> YEAR, MONTH |-> MONTH, DAY |-> DAY, HOUR |-> HOUR,
     LONGIT |-> LONGIT, ZONE |-> ZONE, DSTEP |-> ""]

\* The material arguments of the calls: none, '', names of the table and
\* strings outside it.
SpectraMaterials ==
    {PyNone, PyStr(""), PyStr("Gravel"), PyStr("LiteSoil"), PyStr("Sand"),
     PyStr("gravel")}

\* The date, time and place arguments of the calls.
SpectraSites ==
    {[YEAR |-> "2020", MONTH |-> "10", DAY |-> "21", HOUR |-> "12.75",
      LATIT |-> "39.74", LONGIT |-> "-105.18", ALTIT |-> "1.829", ZONE |-> "-7"],
     [YEAR |-> "2001", MONTH |-> "6", DAY |-> "21", HOUR |-> "12",
      LATIT |-> "32.", LONGIT |-> "-110.92", ALTIT |-> "0.77", ZONE |-> "-7"]}

\* A caller that is in no call calls one of the public functions.
CallSMARTSSpectra(i) ==
    \E mat \in SpectraMaterials, a \in SpectraSites, IOUT \in {"30", "8 30"} :
        /\ pc[i] = "idle"
        /\ Begin(i, SMARTSSpectra(IOUT, a.YEAR, a.MONTH, a.DAY, a.HOUR, a.LATIT,
                                  a.LONGIT, a.ALTIT, a.ZONE, mat, "280", "4000"),
                 Via("SMARTSSpectra", mat, PyNone, PyNone, PyNone,
                     _material_to_code_prints(mat)))

\* 1018-1020, 1497-1499: what the functions for measured weather print
\* about an altitude that looks like metres.
AltitudeWarning(ALTIT) ==
    IF float_gt(ALTIT, 800)
    THEN <<"Altitude should be in km. Are you in Mt. Everest or above or "
           \o "using meters? This might fail but we'll attempt to continue.">>
    ELSE <<>>

\* SMARTSTMY3, 955-1411: the arguments it passes to _smartsAll.
SMARTSTMY3(IOUT, YEAR, MONTH, DAY, HOUR, LATIT, LONGIT, ALTIT, ZONE, RHOG, W, RH, TAIR, SEASON, TDAY, SPR, HEIGHT, mat, min_wvl, max_wvl) ==
    [CMNT |-> "TMY Parameters Spectra",
     ISPR |-> "1", SPR |-> SPR, ALTIT |-> ALTIT, HEIGHT |-> HEIGHT,
     LATIT |-> LATIT,
     IATMOS |-> "0", ATMOS |-> "USSA", RH |-> RH, TAIR |-> TAIR,
     SEASON |-> SEASON, TDAY |-> TDAY,
     IH2O |-> IF float_eq(W, 0) \/ float_gt(W, 12) THEN "2" ELSE "0", W |-> W,
     IO3 |-> "1", IALT |-> "", AbO3 |-> "",
     IGAS |-> "0", ILOAD |-> "1",
     ApCH2O |-> "", ApCH4 |-> "", ApCO |-> "", ApHNO2 |-> "",
     ApHNO3 |-> "", ApNO |-> "", ApNO2 |-> "", ApNO3 |-> "",
     ApO3 |-> "", ApSO2 |-> "",
     qCO2 |-> "0.0", ISPCTR |-> "0",
     AEROS |-> "S&F_TROPO", ALPHA1 |-> "", ALPHA2 |-> "",
     OMEGL |-> "", GG |-> "",
     ITURB |-> "0", TAU5 |-> "0.00", BETA |-> "", BCHUEP |-> "",
     RANGE |-> "", VISI |-> "", TAU550 |-> "",
     IALBDX |-> py_format(_material_to_code(mat)), RHOX |-> "",
     ITILT |-> "1", IALBDG |-> "-1", TILT |-> "0.0", WAZIM |-> "180.0",
     RHOG |-> RHOG,
     WLMN |-> min_wvl, WLMX |-> max_wvl, SUNCOR |-> "1.0", SOLARC |-> "1367.0",
     IPRT |-> "2", WPMN |-> min_wvl, WPMX |-> max_wvl, INTVL |-> ".5",
     IOUT |-> IOUT,
     ICIRC |-> "0", SLOPE |-> "", APERT |-> "", LIMIT |-> "",
     ISCAN |-> "0", IFILT |-> "", WV1 |-> "", WV2 |-> "",
     STEP |-> "", FWHM |-> "",
     ILLUM |-> "0", IUV |-> "0",
     IMASS |-> "3", ZENITH |-> "", AZIM |-> "", ELEV |-> "",
     AMASS |-> "",
     YEAR |-> YEAR, MONTH |-> MONTH, DAY |-> DAY, HOUR |-> HOUR,
     LONGIT |-> LONGIT, ZONE |-> ZONE, DSTEP |-> ""]

\* 1018-1020, 1111-1112, 1259: what SMARTSTMY3 prints.
SMARTSTMY3_prints(ALTIT, W, mat) ==
    AltitudeWarning(ALTIT)
    \o (IF float_eq(W, 0) \/ float_gt(W, 12)
        THEN <<"Switching to calculating W">> ELSE <<>>)
    \o _material_to_code_prints(mat)

\* SMARTSSRRL with TAU5 taking priority over BETA.
SMARTSSRRL_tau5(IOUT, YEAR, MONTH, DAY, HOUR, LATIT, LONGIT, ALTIT, ZONE, W, RH, TAIR, SEASON, TDAY, SPR, TILT, WAZIM, RHOG, ALPHA1, ALPHA2, OMEGL, GG, BETA, TAU5, HEIGHT, mat, min_wvl, max_wvl) ==
    [CMNT |-> "SRRL Spectra",
     ISPR |-> "1", SPR |-> SPR, ALTIT |-> ALTIT, HEIGHT |-> HEIGHT,
     LATIT |-> LATIT,
     IATMOS |-> "0", ATMOS |-> "USSA", RH |-> RH, TAIR |-> TAIR,
     SEASON |-> SEASON, TDAY |-> TDAY,
     IH2O |-> "0", W |-> W,
     IO3 |-> "1", IALT |-> "", AbO3 |-> "",
     IGAS |-> "0", ILOAD |-> "1",
     ApCH2O |-> "", ApCH4 |-> "", ApCO |-> "", ApHNO2 |-> "",
     ApHNO3 |-> "", ApNO |-> "", ApNO2 |-> "", ApNO3 |-> "",
     ApO3 |-> "", ApSO2 |-> "",
     qCO2 |-> "0.0", ISPCTR |-> "0",
     AEROS |-> "USER", ALPHA1 |-> ALPHA1, ALPHA2 |-> ALPHA2,
     OMEGL |-> OMEGL, GG |-> GG,
     ITURB |-> IF TAU5 # PyNone THEN "0" ELSE "1",
     TAU5 |-> IF TAU5 # PyNone THEN py_format(TAU5) ELSE "",
     BETA |-> IF TAU5 # PyNone THEN "" ELSE py_format(BETA),
     BCHUEP |-> "", RANGE |-> "", VISI |-> "", TAU550 |-> "",
     IALBDX |-> py_format(_material_to_code(mat)), RHOX |-> "",
     ITILT |-> "1", IALBDG |-> "-1", TILT |-> TILT, WAZIM |-> WAZIM,
     RHOG |-> RHOG,
     WLMN |-> min_wvl, WLMX |-> max_wvl, SUNCOR |-> "1.0", SOLARC |-> "1367.0",
     IPRT |-> "2", WPMN |-> min_wvl, WPMX |-> max_wvl, INTVL |-> ".5",
     IOUT |-> IOUT,
     ICIRC |-> "0", SLOPE |-> "", APERT |-> "", LIMIT |-> "",
     ISCAN |-> "0", IFILT |-> "", WV1 |-> "", WV2 |-> "",
     STEP |-> "", FWHM |-> "",
     ILLUM |-> "0", IUV |-> "0",
     IMASS |-> "3", ZENITH |-> "", AZIM |-> "", ELEV |-> "",
     AMASS |-> "",
     YEAR |-> YEAR, MONTH |-> MONTH, DAY |-> DAY, HOUR |-> HOUR,
     LONGIT |-> LONGIT, ZONE |-> ZONE, DSTEP |-> ""]

\* SMARTSSRRL, 1415-1888: the arguments it passes to _smartsAll.
SMARTSSRRL(IOUT, YEAR, MONTH, DAY, HOUR, LATIT, LONGIT, ALTIT, ZONE, W, RH, TAIR, SEASON, TDAY, SPR, TILT, WAZIM, RHOG, ALPHA1, ALPHA2, OMEGL, GG, BETA, TAU5, HEIGHT, mat, min_wvl, max_wvl) ==
    [CMNT |-> "SRRL Spectra",
     ISPR |-> "1", SPR |-> SPR, ALTIT |-> ALTIT, HEIGHT |-> HEIGHT,
     LATIT |-> LATIT,
     IATMOS |-> "0", ATMOS |-> "USSA", RH |-> RH, TAIR |-> TAIR,
     SEASON |-> SEASON, TDAY |-> TDAY,
     IH2O |-> "0", W |-> W,
     IO3 |-> "1", IALT |-> "", AbO3 |-> "",
     IGAS |-> "0", ILOAD |-> "1",
     ApCH2O |-> "", ApCH4 |-> "", ApCO |-> "", ApHNO2 |-> "",
     ApHNO3 |-> "", ApNO |-> "", ApNO2 |-> "", ApNO3 |-> "",
     ApO3 |-> "", ApSO2 |-> "",
     qCO2 |-> "0.0", ISPCTR |-> "0",
     AEROS |-> "USER", ALPHA1 |-> ALPHA1, ALPHA2 |-> ALPHA2,
     OMEGL |-> OMEGL, GG |-> GG,
     ITURB |-> "1",
     TAU5 |-> IF BETA # PyNone THEN "" ELSE py_format(TAU5),
     BETA |-> IF BETA # PyNone THEN py_format(BETA) ELSE "",
     BCHUEP |-> "", RANGE |-> "", VISI |-> "", TAU550 |-> "",
     IALBDX |-> py_format(_material_to_code(mat)), RHOX |-> "",
     ITILT |-> "1", IALBDG |-> "-1", TILT |-> TILT, WAZIM |-> WAZIM,
     RHOG |-> RHOG,
     WLMN |-> min_wvl, WLMX |-> max_wvl, SUNCOR |-> "1.0", SOLARC |-> "1367.0",
     IPRT |-> "2", WPMN |-> min_wvl, WPMX |-> max_wvl, INTVL |-> ".5",
     IOUT |-> IOUT,
     ICIRC |-> "0", SLOPE |-> "", APERT |-> "", LIMIT |-> "",
     ISCAN |-> "0", IFILT |-> "", WV1 |-> "", WV2 |-> "",
     STEP |-> "", FWHM |-> "",
     ILLUM |-> "0", IUV |-> "0",
     IMASS |-> "3", ZENITH |-> "", AZIM |-> "", ELEV |-> "",
     AMASS |-> "",
     YEAR |-> YEAR, MONTH |-> MONTH, DAY |-> DAY, HOUR |-> HOUR,
     LONGIT |-> LONGIT, ZONE |-> ZONE, DSTEP |-> ""]

\* The measured weather of the calls of SMARTSTMY3 and SMARTSSRRL.
Weather ==
    [RH |-> "45.0", TAIR |-> "20.5", SEASON |-> "SUMMER", TDAY |-> "18.3",
     SPR |-> "810.406", RHOG |-> "0.2", TILT |-> "33.0", WAZIM |-> "180.0",
     ALPHA1 |-> "0.9", ALPHA2 |-> "1.4", OMEGL |-> "0.8", GG |-> "0.65"]

\* Precipitable water: in range, at its ends, beyond them, and missing as
\* weather files mark it.
WaterValues == {"1.42", "12", "12.0", "12.5", "0", "0.0", "-1", "-9900"}

\* BETA and TAU5 of a call: given or None.
BetaValues == {PyNone, PyStr("0.05")}
Tau5Values == {PyNone, PyStr("0.084")}

\* Altitudes in km and, by mistake, in metres.
Altitudes == {"1.829", "1829"}

\* The place and time of the calls with measured weather.
Golden == CHOOSE a \in SpectraSites : a.YEAR = "2020"

CallSMARTSTMY3(i) ==
    \E a \in {Golden}, W \in WaterValues, ALTIT \in Altitudes,
       mat \in {PyStr("DryGrass")} :
        /\ pc[i] = "idle"
        /\ Begin(i, SMARTSTMY3("30", a.YEAR, a.MONTH, a.DAY, a.HOUR, a.LATIT,
                               a.LONGIT, ALTIT, a.ZONE, Weather.RHOG, W,
                               Weather.RH, Weather.TAIR, Weather.SEASON,
                               Weather.TDAY, Weather.SPR, "0", mat, "280", "4000"),
                 Via("SMARTSTMY3", mat, PyNone, PyNone, PyStr(W),
                     SMARTSTMY3_prints(ALTIT, W, mat)))

CallSMARTSSRRL(i) ==
    \E a \in {Golden}, BETA \in BetaValues, TAU5 \in Tau5Values,
       ALTIT \in Altitudes, mat \in {PyStr("DryGrass")} :
        /\ pc[i] = "idle"
        /\ Begin(i, SMARTSSRRL("30", a.YEAR, a.MONTH, a.DAY, a.HOUR, a.LATIT,
                               a.LONGIT, ALTIT, a.ZONE, "1.42", Weather.RH,
                               Weather.TAIR, Weather.SEASON, Weather.TDAY,
                               Weather.SPR, Weather.TILT, Weather.WAZIM,
                               Weather.RHOG, Weather.ALPHA1, Weather.ALPHA2,
                               Weather.OMEGL, Weather.GG, BETA, TAU5, "0", mat,
                               "280", "4000"),
                 Via("SMARTSSRRL", mat, BETA, TAU5, PyStr("1.42"),
                     AltitudeWarning(ALTIT) \o _material_to_code_prints(mat)))

NextPublic ==
    \E i \in Callers :
        \/ CallSMARTSSpectra(i)
        \/ CallSMARTSTMY3(i)
        \/ CallSMARTSSRRL(i)
        \/ RemoveStale(i)
        \/ OpenInput(i)
        \/ Encode(i)
        \/ Locate(i)
        \/ StartEngine(i)
        \/ EngineExit(i)
        \/ ReadOutput(i)
        \/ RemoveTransient(i)
        \/ Restore(i)
        \/ Finish(i)

SpecPublic == Init /\ [][NextPublic]_vars

(***************************************************************************)
(* Progress of a call.  The interpreter runs the statements of a call one  *)
(* after the other, so each step of _smartsAll that is enabled is          *)
(* eventually taken; the engine is another process and nothing makes it    *)
(* exit, and nothing makes the caller call.                                *)
(***************************************************************************)
LiveConfigs == {Reference, [Reference EXCEPT !.IPRT = ""]}

\* No leftover of an earlier run and every deletion succeeds.
InitLive ==
    /\ Init
    /\ undeletable = {}
    /\ \A d \in Dirs : \A n \in {INP, OUT, EXT, SCN} : ~fs[d][n].exists

EnterLive(i) == \E cfg \in LiveConfigs : Begin(i, cfg, DirectCall)

NextLive ==
    \E i \in Callers :
        \/ EnterLive(i)
        \/ RemoveStale(i)
        \/ OpenInput(i)
        \/ Encode(i)
        \/ Locate(i)
        \/ StartEngine(i)
        \/ EngineExit(i)
        \/ ReadOutput(i)
        \/ RemoveTransient(i)
        \/ Restore(i)
        \/ Finish(i)

Progress ==
    \A i \in Callers :
        /\ WF_vars(RemoveStale(i))
        /\ WF_vars(OpenInput(i))
        /\ WF_vars(Encode(i))
        /\ WF_vars(Locate(i))
        /\ WF_vars(StartEngine(i))
        /\ WF_vars(ReadOutput(i))
        /\ WF_vars(RemoveTransient(i))
        /\ WF_vars(Restore(i))

SpecLive == InitLive /\ [][NextLive]_vars /\ Progress

(***************************************************************************)
(* Two calls of _smartsAll at once, from two threads of one process in one *)
(* working directory: the steps of the two calls interleave.               *)
(***************************************************************************)
ConcurrentConfigs == {Reference, [Reference EXCEPT !.IOUT = "1 2 30"]}

\* No leftover of an earlier run, every deletion succeeds, the engine is
\* installed in the caller's directory and SMARTSPATH is not set.
InitConcurrent ==
    /\ Init
    /\ environ = {}
    /\ undeletable = {}
    /\ \A n \in {INP, OUT, EXT, SCN} : ~fs[CallerDir][n].exists
    /\ path_exists(CallerDir, commands[1])
    /\ ~path_exists(CallerDir, commands[2])

EnterConcurrent(i) == \E cfg \in ConcurrentConfigs : Begin(i, cfg, DirectCall)

NextConcurrent ==
    \E i \in Invs :
        \/ EnterConcurrent(i)
        \/ RemoveStale(i)
        \/ OpenInput(i)
        \/ Encode(i)
        \/ Locate(i)
        \/ StartEngine(i)
        \/ EngineExit(i)
        \/ ReadOutput(i)
        \/ RemoveTransient(i)
        \/ Restore(i)
        \/ Finish(i)

SpecConcurrent == InitConcurrent /\ [][NextConcurrent]_vars

(***************************************************************************)
(* Two threads of one process that each call _smartsAll once, with         *)
(* SMARTSPATH set: both calls change the working directory of the process. *)
(***************************************************************************)
\* SMARTSPATH names the directory the engine is installed in; no leftover
\* of an earlier run, every deletion succeeds.
InitOverlap ==
    /\ Init
    /\ environ = {<<"SMARTSPATH", EngineHome>>}
    /\ undeletable = {}
    /\ \A n \in {INP, OUT, EXT, SCN} : ~fs[EngineHome][n].exists
    /\ path_exists(EngineHome, commands[1])
    /\ ~path_exists(EngineHome, commands[2])

EnterOverlap(i) == Begin(i, Reference, DirectCall)

NextOverlap ==
    \E i \in Invs :
        \/ EnterOverlap(i)
        \/ RemoveStale(i)
        \/ OpenInput(i)
        \/ Encode(i)
        \/ Locate(i)
        \/ StartEngine(i)
        \/ EngineExit(i)
        \/ ReadOutput(i)
        \/ RemoveTransient(i)
        \/ Restore(i)

SpecOverlap == InitOverlap /\ [][NextOverlap]_vars

(***************************************************************************)
(* Calls of _material_to_code, smarts.py 22-99.                            *)
(***************************************************************************)
\* Strings that are not keys of material_map.
UnknownNames == {"Sand", "gravel", "Gravel ", "48"}

MaterialInputs ==
    {PyNone, PyStr("")} \cup {PyStr(n) : n \in MaterialNames \cup UnknownNames}

InitMaterial ==
    /\ InitFiles
    /\ InitSmarts
    /\ material \in MaterialInputs
    /\ mat_result = Pending
    /\ mat_stdout = <<>>

Resolve ==
    /\ mat_result = Pending
    /\ mat_result' = _material_to_code(material)
    /\ mat_stdout' = _material_to_code_prints(material)
    /\ UNCHANGED <<environ, undeletable, cwd, fs, smartsVars, material>>

NextMaterial == Resolve

SpecMaterial == InitMaterial /\ [][NextMaterial]_vars

(***************************************************************************)
(* Properties.                                                             *)
(***************************************************************************)
SmartsPathSet == \E e \in environ : e[1] = "SMARTSPATH"

Ended(i) == pc[i] \in {"returned", "raised"}

\* No candidate executable exists in any directory the process works in.
NoEngine == \A d \in Dirs : \A k \in 1..Len(commands) : ~path_exists(d, commands[k])

\* The file and process operations of a call, the directory change aside.
FileOps(i) == io[i] \ {"chdir"}

\* Invocation i has written the input file and the file is still there.
WroteInput(i) ==
    /\ pc[i] # "idle"
    /\ ("write:" \o INP) \in io[i]
    /\ fs[cwd][INP].exists

HasCard(L, c) == \E k \in 1..Len(L) : L[k].card = c
IndexOf(L, c) == CHOOSE k \in 1..Len(L) : L[k].card = c
TextOf(L, c) == L[IndexOf(L, c)].text

\* The texts of the lines strictly between the lines of cards a and b.
Between(L, a, b) ==
    [k \in 1..(IndexOf(L, b) - IndexOf(L, a) - 1) |-> L[IndexOf(L, a) + k].text]

InvalidOption(p) ==
    \/ p.ISPR \notin {"0", "1", "2"}
    \/ p.IATMOS \notin {"0", "1"}
    \/ p.IH2O \notin {"0", "1", "2"}
    \/ p.IO3 \notin {"0", "1"}
    \/ p.IGAS \notin {"0", "1"}
    \/ p.ITURB \notin {"0", "1", "2", "3", "4", "5"}
    \/ p.IMASS \notin {"0", "1", "2", "3", "4"}

MissingRequired(p) ==
    \/ p.ISPR = "1" /\ p.ALTIT = ""
    \/ p.IH2O = "0" /\ p.W = ""
    \/ p.IMASS = "0" /\ p.ZENITH = ""

\* C1: with SMARTSPATH set, a call of _smartsAll that has ended, by
\* returning or by raising, has left the working directory of the process
\* what it was when the call was entered.
C1_CwdRestoredOnEveryExit ==
    \A i \in Invs : (SmartsPathSet /\ Ended(i)) => cwd = entry_wd[i]

\* C2: when neither candidate executable exists the call never returns a
\* value (None or an empty result) as if it had completed: it ends with an
\* error.
C2_EngineNotFoundIsAnError ==
    \A i \in Invs : NoEngine => pc[i] # "returned"

\* C3: when no engine executable is found the call starts no subprocess
\* and never opens or parses smarts295.ext.txt.
C3_NoEngineNoRunNoRead ==
    \A i \in Invs : NoEngine => ("popen" \notin io[i] /\ ("read:" \o EXT) \notin io[i])

C3_Witness ==
    NoEngine /\ pc[1] = "returned" /\ data[1] = PyNone /\ ("write:" \o INP) \in io[1]

\* C4: a call with an option code outside its domain makes no file or
\* process operation (nothing removed, the input file neither created nor
\* written, the engine not started) and ends with an error.
C4_InvalidOptionRejectedBeforeIO ==
    \A i \in Invs : (pc[i] # "idle" /\ InvalidOption(params[i]))
                    => (FileOps(i) = {} /\ pc[i] # "returned")

\* C5: a call that leaves empty a field its option codes require (ISPR 1
\* without ALTIT, IH2O 0 without W, IMASS 0 without ZENITH) makes no file
\* operation and ends with an error.
C5_MissingFieldRejectedBeforeIO ==
    \A i \in Invs : (pc[i] # "idle" /\ MissingRequired(params[i]))
                    => (FileOps(i) = {} /\ pc[i] # "returned")

\* C6: in the input file card 8a (ALPHA1 ALPHA2 OMEGL GG) follows card 8
\* iff AEROS is 'USER', card 10a (RHOX) follows card 10 iff IALBDX is '-1',
\* card 10d (RHOG) follows card 10c iff ITILT is '1' and IALBDG is '-1';
\* otherwise the next card follows directly, with no line in between.
C6_SentinelSubCards ==
    \A i \in Invs : WroteInput(i) =>
        LET L == fs[cwd][INP].data
            p == params[i]
        IN  /\ TextOf(L, "8") = "'" \o p.AEROS \o "'"
            /\ TextOf(L, "9") = p.ITURB
            /\ Between(L, "8", "9") =
                 (IF p.AEROS = "USER"
                  THEN <<Join(<<p.ALPHA1, p.ALPHA2, p.OMEGL, p.GG>>, " ")>>
                  ELSE <<>>)
            /\ TextOf(L, "10") = p.IALBDX
            /\ TextOf(L, "10b") = p.ITILT
            /\ Between(L, "10", "10b") =
                 (IF p.IALBDX = "-1" THEN <<p.RHOX>> ELSE <<>>)
            /\ TextOf(L, "11") = Join(<<p.WLMN, p.WLMX, p.SUNCOR, p.SOLARC>>, " ")
            /\ Between(L, "10b", "11") =
                 (IF p.ITILT = "1"
                  THEN <<Join(<<p.IALBDG, p.TILT, p.WAZIM>>, " ")>> \o
                       (IF p.IALBDG = "-1" THEN <<p.RHOG>> ELSE <<>>)
                  ELSE <<>>)

C6_Witness ==
    /\ WroteInput(1)
    /\ params[1].AEROS = "USER"
    /\ params[1].IALBDX = "48"
    /\ params[1].ITILT = "1"
    /\ params[1].IALBDG = "-1"
    /\ Len(Between(fs[cwd][INP].data, "8", "9")) = 1
    /\ Len(Between(fs[cwd][INP].data, "10", "10b")) = 0

\* The sub-cards each option value demands, in the order of the fields.
SubCards2(p) ==
    IF p.ISPR = "0" THEN <<p.SPR>>
    ELSE IF p.ISPR = "1" THEN <<Join(<<p.SPR, p.ALTIT, p.HEIGHT>>, " ")>>
    ELSE <<Join(<<p.LATIT, p.ALTIT, p.HEIGHT>>, " ")>>

SubCards3(p) ==
    IF p.IATMOS = "0" THEN <<Join(<<p.TAIR, p.RH, p.SEASON, p.TDAY>>, " ")>>
    ELSE <<"'" \o p.ATMOS \o "'">>

SubCards4(p) == IF p.IH2O = "0" THEN <<p.W>> ELSE <<>>

SubCards5(p) == IF p.IO3 = "0" THEN <<Join(<<p.IALT, p.AbO3>>, " ")>> ELSE <<>>

SubCards6(p) ==
    IF p.IGAS = "0"
    THEN <<p.ILOAD>> \o
         (IF p.ILOAD = "0"
          THEN <<Join(<<p.ApCH2O, p.ApCH4, p.ApCO, p.ApHNO2, p.ApHNO3, p.ApNO,
                        p.ApNO2, p.ApNO3, p.ApO3, p.ApSO2>>, " ") \o " ">>
          ELSE <<>>)
    ELSE <<>>

SubCards9(p) ==
    <<CASE p.ITURB = "0" -> p.TAU5
        [] p.ITURB = "1" -> p.BETA
        [] p.ITURB = "2" -> p.BCHUEP
        [] p.ITURB = "3" -> p.RANGE
        [] p.ITURB = "4" -> p.VISI
        [] p.ITURB = "5" -> p.TAU550>>

SubCards17(p) ==
    <<CASE p.IMASS = "0" -> Join(<<p.ZENITH, p.AZIM>>, " ")
        [] p.IMASS = "1" -> Join(<<p.ELEV, p.AZIM>>, " ")
        [] p.IMASS = "2" -> p.AMASS
        [] p.IMASS = "3" -> Join(<<p.YEAR, p.MONTH, p.DAY, p.HOUR, p.LATIT,
                                   p.LONGIT, p.ZONE>>, " ")
        [] p.IMASS = "4" -> Join(<<p.MONTH, p.LATIT, p.DSTEP>>, ", ")>>

\* C7: in the input file the lines between the option line of a card and
\* the option line of the next card are exactly the sub-card the option
\* value demands, its fields in the stated order, for every valid value of
\* ISPR, IATMOS, IH2O, IO3, IGAS (and ILOAD), ITURB and IMASS.
C7_OneTemplatePerOption ==
    \A i \in Invs : WroteInput(i) =>
        LET L == fs[cwd][INP].data
            p == params[i]
        IN  /\ TextOf(L, "2") = p.ISPR /\ TextOf(L, "3") = p.IATMOS
            /\ TextOf(L, "4") = p.IH2O /\ TextOf(L, "5") = p.IO3
            /\ TextOf(L, "6") = p.IGAS /\ TextOf(L, "7") = p.qCO2
            /\ TextOf(L, "9") = p.ITURB /\ TextOf(L, "10") = p.IALBDX
            /\ p.ISPR \in {"0", "1", "2"} => Between(L, "2", "3") = SubCards2(p)
            /\ p.IATMOS \in {"0", "1"} => Between(L, "3", "4") = SubCards3(p)
            /\ p.IH2O \in {"0", "1", "2"} => Between(L, "4", "5") = SubCards4(p)
            /\ p.IO3 \in {"0", "1"} => Between(L, "5", "6") = SubCards5(p)
            /\ p.IGAS \in {"0", "1"} => Between(L, "6", "7") = SubCards6(p)
            /\ p.ITURB \in {"0", "1", "2", "3", "4", "5"}
                 => Between(L, "9", "10") = SubCards9(p)
            /\ (HasCard(L, "17") /\ p.IMASS \in {"0", "1", "2", "3", "4"})
                 => /\ TextOf(L, "17") = p.IMASS
                    /\ Between(L, "17", "end") = SubCards17(p)

C7_Witness ==
    /\ WroteInput(1)
    /\ params[1].ISPR = "0" /\ params[1].IGAS = "0" /\ params[1].ILOAD = "0"
    /\ params[1].IMASS = "0"
    /\ Len(Between(fs[cwd][INP].data, "6", "7")) = 2
    /\ Len(Between(fs[cwd][INP].data, "17", "end")) = 1

Resolved == mat_result # Pending

\* C8: for every name of the table _material_to_code returns a code; the
\* code is one of the decimal strings '0'..'66', it is the documented one
\* ('Gravel' '48', 'Grass' '12', 'Concrete' '18', 'Snow' '3'), no other
\* name has it, and the table has as many names as there are codes.
C8_MaterialCodesInjective ==
    (Resolved /\ material.t = "str" /\ material.v \in MaterialNames) =>
        /\ mat_result.t = "str"
        /\ mat_result.v \in {str_of_int(n) : n \in 0..MaxCode}
        /\ material.v = "Gravel" => mat_result.v = "48"
        /\ material.v = "Grass" => mat_result.v = "12"
        /\ material.v = "Concrete" => mat_result.v = "18"
        /\ material.v = "Snow" => mat_result.v = "3"
        /\ {n \in MaterialNames : _material_to_code(PyStr(n)) = mat_result}
             = {material.v}
        /\ Cardinality(MaterialNames) = MaxCode + 1

C8_Witness ==
    Resolved /\ material = PyStr("Gravel") /\ mat_result = PyStr("48")

\* C9: for a non-empty string that is not a key of the table the resolver
\* does not return a value to its caller: it fails with an unknown-material
\* error.
C9_UnknownMaterialIsAnError ==
    (Resolved /\ material.t = "str" /\ material.v # ""
     /\ material.v \notin MaterialNames)
        => mat_result.t = "UnknownMaterialError"

\* C10: called with None or '' the resolver returns the names of the table,
\* all of them and nothing else, and the call prints nothing and changes
\* no file, not the working directory, and starts no process.
C10_NoMaterialGivesAllNames ==
    [][(~Truthy(material) /\ ~Resolved /\ Resolved')
        => /\ mat_result'.t = "dict_keys"
           /\ mat_result'.v =
                {n \in MaterialNames \cup UnknownNames :
                    _material_to_code(PyStr(n)).t = "str"}
           /\ Cardinality(mat_result'.v) = MaxCode + 1
           /\ mat_stdout' = <<>>
           /\ UNCHANGED <<environ, undeletable, cwd, fs, smartsVars>>]_vars

C10_Witness ==
    Resolved /\ material = PyNone /\ mat_result.t = "dict_keys"

ViaSpectra(i) == pc[i] # "idle" /\ caller[i].fn = "SMARTSSpectra"

\* C11: a call of SMARTSSpectra with no material (None) makes no file or
\* process operation, so neither writes the input file nor starts the
\* engine, and returns the names of the material table.
C11_NoMaterialListsNames ==
    \A i \in Invs : (ViaSpectra(i) /\ caller[i].material = PyNone)
        => /\ FileOps(i) = {}
           /\ pc[i] # "raised"
           /\ pc[i] = "returned" => data[i] = PyKeys(MaterialNames)

\* C12: a call of SMARTSSpectra with a material that is not in the table
\* ends with an error and neither writes the input file nor starts the
\* engine; the engine is never started on a card 10 that is not a code of
\* the table or '-1'.
C12_UnknownMaterialAborts ==
    \A i \in Invs :
        /\ (ViaSpectra(i) /\ Truthy(caller[i].material)
            /\ caller[i].material.v \notin MaterialNames)
           => /\ ("write:" \o INP) \notin io[i]
              /\ "popen" \notin io[i]
              /\ pc[i] # "returned"
        /\ (ViaSpectra(i) /\ "popen" \in io[i])
           => params[i].IALBDX \in {material_map[n] : n \in MaterialNames} \cup {"-1"}

\* C13: the table a call returns was parsed from an output file the engine
\* wrote during that call, never from one that was there before.
C13_NoStaleOutput ==
    \A i \in Invs : data[i].t = "DataFrame" => ("engine_wrote:" \o EXT) \in io[i]

InCleanup(i) == pc[i] \in {"remove_stale", "remove_transient"}

\* C14: two calls at once in one working directory share the files of the
\* fixed names, and no step protects them. Whenever a call opens the input
\* file it truncates it, also when the cards of the other call are in it;
\* the engine of a call reads the input file that is there, so its output
\* is the one for the call that wrote the cards last; a call parses the
\* output file that is there, also when it was produced for the other
\* call; and a cleanup pass of a call deletes the files of the other.
C14_FixedNamesShared ==
    [][\A i \in Invs : \A j \in Invs \ {i} :
          /\ (pc[j] = "open" /\ pc'[j] = "encode")
                => fs'[cwd][INP] = FileBy(<<>>, j)
          /\ (pc[i] = "wait" /\ pc'[i] = "read"
              /\ fs[proc_wd[i]][INP].exists /\ fs[proc_wd[i]][INP].by = j
              /\ ("engine_wrote:" \o EXT) \in io'[i])
                => fs'[proc_wd[i]][EXT].by = j
          /\ (pc[i] = "read" /\ pc'[i] # "read"
              /\ fs[cwd][EXT] = FileBy(GoodExt, j))
                => /\ pc'[i] = "remove_transient"
                   /\ data'[i] = read_csv(FileBy(GoodExt, j)).data
          /\ (InCleanup(j) /\ pc'[j] # pc[j])
                => \A n \in {INP, OUT, EXT, SCN} :
                      (fs[cwd][n].exists /\ fs[cwd][n].by = i)
                          => ~fs'[cwd][n].exists]_vars

\* The engine of call 1 has run on the cards of call 2, which has not
\* started its engine yet, and call 1 is about to parse that output.
C14_Witness ==
    /\ pc[1] = "read" /\ pc[2] \in {"locate", "popen", "wait"}
    /\ params[1] # params[2]
    /\ ("write:" \o INP) \in io[1]
    /\ ("engine_read:" \o INP) \in io[1]
    /\ ("engine_wrote:" \o EXT) \in io[1]
    /\ ("engine_wrote:" \o EXT) \notin io[2]
    /\ fs[cwd][EXT] = FileBy(GoodExt, 2)

\* C15: a call that ends in an exception after it tried to read the output
\* file ends in a no-output-produced error, not in the exception of the
\* file or of the parser.
C15_NoOutputIsAnExplicitError ==
    \A i \in Invs : (pc[i] = "raised" /\ ("read:" \o EXT) \in io[i])
        => raised[i] = "NoOutputProducedError"

\* C16: after the engine process has exited with a nonzero status the call
\* does not read the output file and does not return.
C16_NonzeroExitAborts ==
    \A i \in Invs : returncode[i] # 0
        => /\ ("read:" \o EXT) \notin io[i]
           /\ pc[i] \notin {"remove_transient", "restore", "returned"}

\* C17: a cleanup pass raises nothing, whichever of the four transient
\* files are missing; a missing file stays missing, no other file is
\* touched, and a second pass right after it would raise nothing and leave
\* the directory as the first pass left it.
C17_CleanupIdempotent ==
    [][\A i \in Invs : (InCleanup(i) /\ pc'[i] # pc[i]) =>
          /\ raised'[i] = "none"
          /\ pc'[i] # "raised"
          /\ \A n \in FileNames :
                (~fs[cwd][n].exists \/ n \notin {INP, OUT, EXT, SCN})
                    => fs'[cwd][n] = fs[cwd][n]
          /\ \A d \in Dirs \ {cwd} : fs'[d] = fs[d]
          /\ remove_all(fs'[cwd], TransientFiles, undeletable)
                = [dir |-> fs'[cwd], raised |-> "none"]]_vars

C17_Witness ==
    /\ pc[1] = "open"
    /\ ("remove:" \o EXT) \in io[1]
    /\ ("remove:" \o INP) \notin io[1]
    /\ ~fs[cwd][SCN].exists

\* C18: a cleanup pass in which a deletion fails for another reason than
\* the file not being there tells the caller so: it prints a warning.
C18_FailedDeletionWarns ==
    [][\A i \in Invs :
          (InCleanup(i) /\ pc'[i] # pc[i]
           /\ \E n \in {INP, OUT, EXT, SCN} : ("remove_failed:" \o n) \in io'[i])
          => stdout'[i] # stdout[i]]_vars

\* C19: the first line of the input file is the comment, cut to its first
\* 62 characters when it is longer, with every blank replaced by an
\* underscore, between single quotes.
C19_CommentCappedAt62 ==
    \A i \in Invs : WroteInput(i) =>
        LET L == fs[cwd][INP].data
            c == params[i].CMNT
            capped == IF Len(c) > MaxComment THEN SubSeq(c, 1, MaxComment) ELSE c
        IN  /\ L[1].card = "1"
            /\ L[1].text = "'" \o str_replace(capped, " ", "_") \o "'"

Texts(L) == [k \in 1..Len(L) |-> L[k].text]

Encoded(i) == WroteInput(i) /\ pc[i] \in {"locate", "popen", "wait", "read"}

\* C21: in a completely written input file card 12a 'WPMN WPMX INTVL' is
\* there exactly when IPRT >= 1, cards 12b and 12c exactly when IPRT is 2
\* or 3; card 12c is IOUT and card 12b is the number of codes listed on
\* card 12c.
C21_OutputSelectionCards ==
    \A i \in Invs : (Encoded(i) /\ IsFloatLiteral(params[i].IPRT)) =>
        LET L == fs[cwd][INP].data
            p == params[i]
        IN  /\ HasCard(L, "12a") <=> float(p.IPRT) >= 1
            /\ HasCard(L, "12a")
                 => TextOf(L, "12a") = Join(<<p.WPMN, p.WPMX, p.INTVL>>, " ")
            /\ HasCard(L, "12b") <=> float(p.IPRT) \in {2, 3}
            /\ HasCard(L, "12c") <=> float(p.IPRT) \in {2, 3}
            /\ HasCard(L, "12c") =>
                 /\ TextOf(L, "12c") = p.IOUT
                 /\ TextOf(L, "12b") = str_of_int(Len(Tokens(TextOf(L, "12c"))))
                 /\ IndexOf(L, "12b") = IndexOf(L, "12a") + 1
                 /\ IndexOf(L, "12c") = IndexOf(L, "12b") + 1

C21_Witness ==
    /\ Encoded(1) /\ params[1].IPRT = "2" /\ params[1].IOUT = "8  30"
    /\ TextOf(fs[cwd][INP].data, "12b") = "2"
    /\ fs[cwd][INP].by = 1

\* The cards of a file whose name is a number: the option lines.
OptionCards(L) ==
    LET keep == {k \in 1..Len(L) : IsFloatLiteral(L[k].card)}
        nth[n \in 1..Cardinality(keep)] ==
            CHOOSE k \in keep : Cardinality({m \in keep : m < k}) = n - 1
    IN  [n \in 1..Cardinality(keep) |-> L[nth[n]].card]

\* C22: a completely written input file holds the lines the encoder
\* derives from the arguments of the call and nothing else, whatever was
\* in the directory before the call, an undeletable smarts295.inp.txt
\* included; its option lines are those of cards 1 to 17 in this order.
C22_InputIsFunctionOfArguments ==
    \A i \in Invs : Encoded(i) =>
        LET L == fs[cwd][INP].data IN
        /\ L = EncodeCards(params[i]).lines
        /\ OptionCards(L) = [n \in 1..17 |-> str_of_int(n)]

\* A call has written its input file over one of an earlier run that could
\* not be deleted.
C22_Witness ==
    /\ Encoded(1)
    /\ INP \in undeletable
    /\ ("remove_failed:" \o INP) \in io[1]
    /\ fs[cwd][INP].data[1].text # "'stale'"
    /\ params[1].IMASS = "0"

Contains(s, sub) ==
    \E k \in 1..(Len(s) - Len(sub) + 1) : SubSeq(s, k, k + Len(sub) - 1) = sub

ViaSRRL(i) == pc[i] # "idle" /\ caller[i].fn = "SMARTSSRRL"

\* C24: the input file of a SMARTSSRRL call that was given both BETA and
\* TAU5 has card 9 '1' and card 9a the BETA value, and no line of it holds
\* the TAU5 value.
C24_BetaHasPriority ==
    \A i \in Invs :
        (ViaSRRL(i) /\ Encoded(i)
         /\ caller[i].BETA # PyNone /\ caller[i].TAU5 # PyNone) =>
            LET L == fs[cwd][INP].data IN
            /\ TextOf(L, "9") = "1"
            /\ TextOf(L, "9a") = caller[i].BETA.v
            /\ IndexOf(L, "9a") = IndexOf(L, "9") + 1
            /\ \A k \in 1..Len(L) : ~Contains(L[k].text, caller[i].TAU5.v)

C24_Witness ==
    /\ ViaSRRL(1) /\ Encoded(1) /\ pc[1] = "wait"
    /\ caller[1].BETA = PyStr("0.05") /\ caller[1].TAU5 = PyStr("0.084")
    /\ TextOf(fs[cwd][INP].data, "9a") = "0.05"

\* C29: the input file of a SMARTSSRRL call that was given BETA or TAU5
\* has on card 9 the option of the value on card 9a, and that value is not
\* empty: '1' and BETA when BETA was given, '0' and TAU5 when BETA is None
\* and TAU5 was given.
C29_TurbidityOptionMatchesValue ==
    \A i \in Invs :
        (ViaSRRL(i) /\ Encoded(i)
         /\ (caller[i].BETA # PyNone \/ caller[i].TAU5 # PyNone)) =>
            LET L == fs[cwd][INP].data IN
            /\ HasCard(L, "9a") /\ TextOf(L, "9a") # ""
            /\ caller[i].BETA # PyNone
                 => TextOf(L, "9") = "1" /\ TextOf(L, "9a") = caller[i].BETA.v
            /\ caller[i].BETA = PyNone
                 => TextOf(L, "9") = "0" /\ TextOf(L, "9a") = caller[i].TAU5.v

ViaTMY3(i) == pc[i] # "idle" /\ caller[i].fn = "SMARTSTMY3"

\* W is greater than 0 and at most 12.
WaterInRange(W) == float_gt(W, 0) /\ ~float_gt(W, 12)

\* C30: the input file of a SMARTSTMY3 call has card 4 '0' followed by
\* card 4a with W when W is greater than 0 and at most 12, and card 4 '2'
\* without a card 4a for every other W.
C30_WaterOnlyInRange ==
    \A i \in Invs : (ViaTMY3(i) /\ Encoded(i)) =>
        LET L == fs[cwd][INP].data
            W == caller[i].W.v
        IN  IF WaterInRange(W)
            THEN /\ TextOf(L, "4") = "0"
                 /\ HasCard(L, "4a") /\ TextOf(L, "4a") = W
            ELSE /\ TextOf(L, "4") = "2"
                 /\ ~HasCard(L, "4a")

\* The steps of a call that returns, in the order of the source.
StepOrder ==
    <<"remove_stale", "open", "encode", "locate", "popen", "wait", "read",
      "remove_transient", "restore", "returned">>
StepNo(s) == CHOOSE k \in 1..Len(StepOrder) : StepOrder[k] = s

Gains(i, tag) == tag \in io'[i] /\ tag \notin io[i]

\* C25: a call takes its steps in the order of StepOrder, skipping only
\* the run and the read when there is no engine and all that follows when
\* an exception ends it.  The engine is started only after the input file
\* has been written to its last line, the output file is read only after
\* the engine has exited, the transient files of a run are removed only
\* after the read, and the directory is changed back only at the end.
C25_StepsInOrder ==
    [][\A i \in Invs :
          /\ (pc'[i] # pc[i] /\ pc[i] \notin {"idle", "returned", "raised"}) =>
                \/ pc'[i] = "raised"
                \/ StepNo(pc'[i]) = StepNo(pc[i]) + 1
                \/ pc[i] = "locate" /\ pc'[i] = "remove_transient"
                   /\ command'[i] = NoCommand
          /\ Gains(i, "popen") =>
                /\ ("write:" \o INP) \in io[i]
                /\ fs[cwd][INP].exists
                /\ Len(fs[cwd][INP].data) > 1
                /\ fs[cwd][INP].data[Len(fs[cwd][INP].data)] = CardEnd[1]
                /\ HasCard(fs[cwd][INP].data, "17")
          /\ Gains(i, "read:" \o EXT) =>
                /\ "popen" \in io[i]
                /\ pc[i] = "read"
                /\ proc_wd[i] # NoneWd
          /\ (pc[i] = "wait" /\ pc'[i] # "wait") => ~Gains(i, "read:" \o EXT)
          /\ (pc[i] = "remove_transient" /\ pc'[i] # pc[i] /\ "popen" \in io[i])
                => ("read:" \o EXT) \in io[i]
          /\ (cwd' # cwd /\ pc[i] # "idle") => pc[i] = "restore"]_vars

\* A call has taken every step: it removed a leftover, wrote the file, ran
\* the engine, read the table, removed the files and changed back.
C25_Witness ==
    /\ pc[1] = "returned"
    /\ {"chdir", "remove:" \o EXT, "open:" \o INP, "write:" \o INP, "popen",
        "engine_read:" \o INP, "engine_wrote:" \o EXT, "read:" \o EXT}
          \subseteq io[1]
    /\ data[1].t = "DataFrame"
    /\ \A n \in {INP, OUT, EXT, SCN} : ~fs[EngineHome][n].exists
    /\ cwd = CallerDir

\* C26: when a call has ended, with a table, with None or with an
\* exception, and no deletion can fail, none of the four transient files is
\* left in the directory the engine ran in.
C26_NoTransientFileLeft ==
    \A i \in Invs : (Ended(i) /\ undeletable = {}) =>
        \A n \in {INP, OUT, EXT, SCN} : ~fs[RunDir(environ)][n].exists

BeforeRun(i) == pc[i] \in {"remove_stale", "open", "encode", "locate", "popen"}
AfterRun(i) == pc[i] \in {"read", "remove_transient", "restore"}

\* C27: a call that has not started the engine yet ends or comes to wait
\* for the engine; a call whose engine has exited ends; and a call that
\* waits for the engine leaves the wait only when the process has exited,
\* never by an exception or a return of its own: while the process runs
\* the call waits.
C27_EndsWhenEngineExits ==
    /\ \A i \in Callers : BeforeRun(i) ~> (Ended(i) \/ pc[i] = "wait")
    /\ \A i \in Callers : AfterRun(i) ~> Ended(i)
    /\ [][\A i \in Callers : (pc[i] = "wait" /\ pc'[i] # "wait")
            => /\ pc'[i] = "read"
               /\ raised'[i] = "none"]_vars

\* A call has ended after its engine had exited.
C27_Witness ==
    /\ Ended(1)
    /\ "popen" \in io[1]
    /\ ("read:" \o EXT) \in io[1]

\* C28: with SMARTSPATH set, when the calls of two threads have both
\* returned, whatever the order of their steps was, the working directory
\* of the process is the one from before the first of them started.
C28_DirectoryRestoredAfterOverlap ==
    (\A i \in Invs : pc[i] = "returned") => cwd = CallerDir

====
